---- MODULE Spec2Model ----
(***************************************************************************)
(* Call-room coordinator of SpaceChatDB (spacetimedb/src/lib.rs).           *)
(*                                                                         *)
(* Every reducer is one atomic step over the tables user, call_room and    *)
(* call_participant.  The two event tables hold the rows inserted by the   *)
(* most recent reducer call only (they are declared `event`: transient     *)
(* broadcast rows, not retained state).                                    *)
(*                                                                         *)
(* Index scans (`by_room().filter(..)`, `by_identity().filter(..)`) give   *)
(* no documented order among rows with an equal key, and `update` replaces *)
(* a row (delete + insert), so `.find(pred)` is modelled as a choice of    *)
(* any row that satisfies pred.                                            *)
(*                                                                         *)
(* Reducers are modelled without relying on the host's rollback: an error  *)
(* path leaves the tables exactly as the code has left them when it        *)
(* returns.                                                                *)
(***************************************************************************)
EXTENDS Integers, Sequences, FiniteSets, TLC

\* ------------------------------------------------------------------ bounds
Identities == {"A", "B", "C"}
CallTypes == {"Voice", "Video"}

\* rooms ever created (uuids handed out)
MaxRooms == 3
\* participant rows ever inserted (auto_inc ids handed out)
MaxRowId == 6
\* longest ordinary target list tried by create_room
MaxLen == 2

\* ------------------------------------------------------- program constants
MaxTargets == 15
AudioMaxBytes == 10000
VideoMaxBytes == 200000

Min(S) == CHOOSE x \in S : \A y \in S : x <= y

RoomIds == 1..MaxRooms

\* a room id that is never generated, used in `last` when a call has none
NoRoom == Min(RoomIds) - 1

\* the identities of the two-party specification
Pair == {"A", "B"}

\* target lists: every list over ids up to MaxLen, and one list that is too long
TooManyTargets == [i \in 1..(MaxTargets + 1) |-> "B"]
TargetLists(ids) == UNION {[1..n -> ids] : n \in 0..MaxLen} \cup {TooManyTargets}
PairTargetLists == TargetLists(Pair)
AllTargetLists == TargetLists(Identities)

AudioLens == {AudioMaxBytes, AudioMaxBytes + 1}
VideoLens == {VideoMaxBytes, VideoMaxBytes + 1}

\* requested <<muted, deafened, cam_off>> of set_media_state
MediaInputs == BOOLEAN \X BOOLEAN \X BOOLEAN
MuteInputs == {m \in MediaInputs : ~m[2] /\ ~m[3]}
CameraInputs == {m \in MediaInputs : ~m[1] /\ ~m[2]}

VARIABLES
    user,               \* identities with a User row (presence directory)
    call_room,          \* set of CallRoom rows
    call_participant,   \* set of CallParticipant rows
    audio_frame_event,  \* AudioFrameEvent rows inserted by the last call
    video_frame_event,  \* VideoFrameEvent rows inserted by the last call
    next_id,            \* next auto_inc id of call_participant
    next_room,          \* next room id the uuid generator hands out
    last,               \* the last reducer call: [op, who, room_id, arg]
    result              \* what it returned: "Ok" or the error message

vars == <<user, call_room, call_participant, audio_frame_event,
          video_frame_event, next_id, next_room, last, result>>

\* ----------------------------------------------------------------- helpers
by_room(room_id) == {p \in call_participant : p.room_id = room_id}
by_identity(who) == {p \in call_participant : p.identity = who}

IsJoinedAnywhere(who) == \E p \in by_identity(who) : p.state = "Joined"

FindRoom(room_id) == {r \in call_room : r.room_id = room_id}

NewParticipant(id, room_id, identity, state, invited_by, joined_at) ==
    [id |-> id, room_id |-> room_id, identity |-> identity, state |-> state,
     invited_by |-> invited_by, joined_at |-> joined_at,
     muted |-> FALSE, deafened |-> FALSE, cam_off |-> FALSE,
     server_muted |-> FALSE]

\* no call is being reported
Idle == [op |-> "idle", who |-> "A", room_id |-> NoRoom, arg |-> <<>>]

\* arg: the remaining arguments of the call, as a tuple
Called(op, who, room_id, arg, res) ==
    /\ last' = [op |-> op, who |-> who, room_id |-> room_id, arg |-> arg]
    /\ result' = res

NoEvents ==
    /\ audio_frame_event' = {}
    /\ video_frame_event' = {}

\* the previous call has been delivered
Ready == last.op = "idle"

\* a return before any write: an error, or a silently dropped frame
ReturnEarly(op, who, room_id, arg, msg) ==
    /\ Called(op, who, room_id, arg, msg)
    /\ NoEvents
    /\ UNCHANGED <<user, call_room, call_participant, next_id, next_room>>

\* ids still to hand out within the bounds of the model
RoomsLeft == next_room <= MaxRooms
RowsLeft(n) == next_id + n - 1 <= MaxRowId

Init ==
    /\ user = {}
    /\ call_room = {}
    /\ call_participant = {}
    /\ audio_frame_event = {}
    /\ video_frame_event = {}
    /\ next_id = 1
    /\ next_room = 1
    /\ last = Idle
    /\ result = "Ok"

\* ---------------------------------------------------------------- presence
client_connected(who) ==
    /\ Ready
    /\ user' = user \cup {who}
    /\ Called("client_connected", who, NoRoom, <<>>, "Ok")
    /\ NoEvents
    /\ UNCHANGED <<call_room, call_participant, next_id, next_room>>

\* ------------------------------------------------------------------ cleanup
HasJoined(parts, room_id) ==
    \E p \in parts : p.room_id = room_id /\ p.state = "Joined"

\* mutant: the room goes, its Invited rows stay
cleanup_room_only(db, room_id) ==
    IF ~HasJoined(db.call_participant, room_id)
    THEN [call_participant |-> db.call_participant,
          call_room |-> {r \in db.call_room : r.room_id # room_id}]
    ELSE db

\* db is [call_participant, call_room]; returns the tables after the cleanup
cleanup_room_if_empty(db, room_id) ==
    IF ~HasJoined(db.call_participant, room_id)
    THEN [call_participant |-> {p \in db.call_participant : p.room_id # room_id},
          call_room |-> {r \in db.call_room : r.room_id # room_id}]
    ELSE db

RECURSIVE CleanupRooms(_, _)
CleanupRooms(db, rooms) ==
    IF rooms = {} THEN db
    ELSE LET r == CHOOSE x \in rooms : TRUE
         IN CleanupRooms(cleanup_room_if_empty(db, r), rooms \ {r})

\* mutant: only the Joined rows of the identity are deleted
client_disconnected_joined_only(who) ==
    /\ Ready
    /\ LET participant_rows == {p \in by_identity(who) : p.state = "Joined"}
           joined_rooms == {p.room_id : p \in participant_rows}
           deleted == [call_participant |-> call_participant \ participant_rows,
                       call_room |-> call_room]
           db == CleanupRooms(deleted, joined_rooms)
       IN /\ user' = user \ {who}
          /\ call_participant' = db.call_participant
          /\ call_room' = db.call_room
          /\ Called("client_disconnected", who, NoRoom, <<>>, "Ok")
          /\ NoEvents
          /\ UNCHANGED <<next_id, next_room>>

client_disconnected(who) ==
    /\ Ready
    /\ LET participant_rows == by_identity(who)
           joined_rooms == {p.room_id : p \in {q \in participant_rows : q.state = "Joined"}}
           deleted == [call_participant |-> call_participant \ participant_rows,
                       call_room |-> call_room]
           db == CleanupRooms(deleted, joined_rooms)
       IN /\ user' = user \ {who}
          /\ call_participant' = db.call_participant
          /\ call_room' = db.call_room
          /\ Called("client_disconnected", who, NoRoom, <<>>, "Ok")
          /\ NoEvents
          /\ UNCHANGED <<next_id, next_room>>

\* -------------------------------------------------------------- create_room
\* mutant: the presence directory is not asked
TargetError_NoOnlineCheck(creator, target) ==
    IF target = creator THEN "Cannot invite yourself"
    ELSE IF IsJoinedAnywhere(target) THEN "A target is already in a call"
    ELSE "Ok"

TargetError(creator, target) ==
    IF target = creator THEN "Cannot invite yourself"
    ELSE IF target \notin user THEN "A target is not online"
    ELSE IF IsJoinedAnywhere(target) THEN "A target is already in a call"
    ELSE "Ok"

\* the checks of create_room in the order the code makes them
CreateRoomCheck(creator, targets) ==
    IF Len(targets) = 0 THEN "Need at least one target"
    ELSE IF Len(targets) > MaxTargets THEN "Cannot invite more than 15 targets"
    ELSE IF IsJoinedAnywhere(creator) THEN "You are already in a call"
    ELSE LET bad == {i \in 1..Len(targets) : TargetError(creator, targets[i]) # "Ok"}
         IN IF bad = {} THEN "Ok" ELSE TargetError(creator, targets[Min(bad)])

CreateRoomRows(creator, targets, room_id, first_id) ==
    {NewParticipant(first_id, room_id, creator, "Joined", creator, "Some")}
    \cup {NewParticipant(first_id + i, room_id, targets[i], "Invited", creator, "None")
          : i \in 1..Len(targets)}

create_room(creator, targets, call_type) ==
    /\ Ready
    /\ LET chk == CreateRoomCheck(creator, targets)
       IN IF chk # "Ok"
          THEN ReturnEarly("create_room", creator, NoRoom, <<targets, call_type>>, chk)
          ELSE \/ \* new_uuid_v7 and new_uuid_v4 both fail
                  ReturnEarly("create_room", creator, NoRoom, <<targets, call_type>>, "Failed to generate room id")
               \/ /\ RoomsLeft
                  /\ RowsLeft(Len(targets) + 1)
                  /\ call_room' = call_room \cup
                        {[room_id |-> next_room, call_type |-> call_type,
                          creator |-> creator]}
                  /\ call_participant' = call_participant \cup
                        CreateRoomRows(creator, targets, next_room, next_id)
                  /\ next_id' = next_id + Len(targets) + 1
                  /\ next_room' = next_room + 1
                  /\ Called("create_room", creator, next_room, <<targets, call_type>>, "Ok")
                  /\ NoEvents
                  /\ UNCHANGED user

\* ----------------------------------------------------------- invite_to_room
\* mutant: an Invited row is enough to invite
IsJoinedIn_AnyState(who, room_id) ==
    \E p \in by_room(room_id) : p.identity = who

IsJoinedIn(who, room_id) ==
    \E p \in by_room(room_id) : p.identity = who /\ p.state = "Joined"

AlreadyInRoom(target, room_id) ==
    \E p \in by_room(room_id) : p.identity = target

\* mutant: the presence directory is not asked about the target
InviteCheck_NoOnlineCheck(who, room_id, target) ==
    IF ~IsJoinedIn(who, room_id) THEN "You are not joined in that room"
    ELSE IF IsJoinedAnywhere(target) THEN "Target is already in a call"
    ELSE IF AlreadyInRoom(target, room_id) THEN "Target is already in this room"
    ELSE "Ok"

InviteCheck(who, room_id, target) ==
    IF ~IsJoinedIn(who, room_id) THEN "You are not joined in that room"
    ELSE IF target \notin user THEN "Target is not online"
    ELSE IF IsJoinedAnywhere(target) THEN "Target is already in a call"
    ELSE IF AlreadyInRoom(target, room_id) THEN "Target is already in this room"
    ELSE "Ok"

invite_to_room(who, room_id, target) ==
    /\ Ready
    /\ LET chk == InviteCheck(who, room_id, target)
       IN IF chk # "Ok"
          THEN ReturnEarly("invite_to_room", who, room_id, <<target>>, chk)
          ELSE /\ RowsLeft(1)
               /\ call_participant' = call_participant \cup
                     {NewParticipant(next_id, room_id, target, "Invited", who, "None")}
               /\ next_id' = next_id + 1
               /\ Called("invite_to_room", who, room_id, <<target>>, "Ok")
               /\ NoEvents
               /\ UNCHANGED <<user, call_room, next_room>>

\* ---------------------------------------------------------------- join_room
\* rows `.find(|p| p.identity == who)` over by_room(room_id) may return
FindByIdentity(room_id, who) == {p \in by_room(room_id) : p.identity = who}

\* rows `.find(|p| p.identity == who && p.state == Joined)` may return
FindJoined(room_id, who) ==
    {p \in by_room(room_id) : p.identity = who /\ p.state = "Joined"}

JoinedInOtherRoom(who, room_id) ==
    \E p \in by_identity(who) : p.room_id # room_id /\ p.state = "Joined"

\* mutant: the row is joined and joined_at is left as it was
JoinedRow_NoTimestamp(participant) == [participant EXCEPT !.state = "Joined"]

JoinedRow(participant) ==
    [participant EXCEPT !.state = "Joined", !.joined_at = "Some"]

\* `id().update(row)`: replace the row that has row.id
UpdateRow(parts, row) == {p \in parts : p.id # row.id} \cup {row}

\* `id().delete(&id)`
DeleteRow(parts, id) == {p \in parts : p.id # id}

join_room(who, room_id) ==
    /\ Ready
    /\ IF FindByIdentity(room_id, who) = {}
       THEN ReturnEarly("join_room", who, room_id, <<>>, "Not invited to this room")
       ELSE \E participant \in FindByIdentity(room_id, who) :
              IF participant.state # "Invited"
              THEN ReturnEarly("join_room", who, room_id, <<>>, "Not in invited state")
              ELSE IF JoinedInOtherRoom(who, room_id)
              THEN ReturnEarly("join_room", who, room_id, <<>>, "Already joined in another room")
              ELSE /\ call_participant' = UpdateRow(call_participant, JoinedRow(participant))
                   /\ Called("join_room", who, room_id, <<>>, "Ok")
                   /\ NoEvents
                   /\ UNCHANGED <<user, call_room, next_id, next_room>>

\* ----------------------------------------------------------- decline_invite
decline_invite(who, room_id) ==
    /\ Ready
    /\ IF FindByIdentity(room_id, who) = {}
       THEN ReturnEarly("decline_invite", who, room_id, <<>>, "Not in this room")
       ELSE \E participant \in FindByIdentity(room_id, who) :
              IF participant.state # "Invited"
              THEN ReturnEarly("decline_invite", who, room_id, <<>>, "Not in invited state")
              ELSE /\ call_participant' = DeleteRow(call_participant, participant.id)
                   /\ Called("decline_invite", who, room_id, <<>>, "Ok")
                   /\ NoEvents
                   /\ UNCHANGED <<user, call_room, next_id, next_room>>

\* --------------------------------------------------------------- leave_room
\* mutant: the row is deleted and the cleanup is not called
RemoveOnly(participant, room_id) ==
    [call_participant |-> DeleteRow(call_participant, participant.id),
     call_room |-> call_room]

\* delete one row, then cleanup_room_if_empty: the tail of leave and kick
RemoveAndCleanup(participant, room_id) ==
    cleanup_room_if_empty(
        [call_participant |-> DeleteRow(call_participant, participant.id),
         call_room |-> call_room], room_id)

leave_room(who, room_id) ==
    /\ Ready
    /\ IF FindByIdentity(room_id, who) = {}
       THEN ReturnEarly("leave_room", who, room_id, <<>>, "Not in this room")
       ELSE \E participant \in FindByIdentity(room_id, who) :
              LET db == RemoveAndCleanup(participant, room_id)
              IN /\ call_participant' = db.call_participant
                 /\ call_room' = db.call_room
                 /\ Called("leave_room", who, room_id, <<>>, "Ok")
                 /\ NoEvents
                 /\ UNCHANGED <<user, next_id, next_room>>

\* --------------------------------------------------------- send_audio_frame
AudioDropped(participant) == participant.muted \/ participant.server_muted

AudioTooLarge(len) == len > AudioMaxBytes

send_audio_frame(who, room_id, len) ==
    /\ Ready
    /\ IF FindJoined(room_id, who) = {}
       THEN ReturnEarly("send_audio_frame", who, room_id, <<len>>, "Not a joined participant")
       ELSE \E participant \in FindJoined(room_id, who) :
              IF AudioDropped(participant)
              THEN ReturnEarly("send_audio_frame", who, room_id, <<len>>, "Ok")
              ELSE IF AudioTooLarge(len)
              THEN ReturnEarly("send_audio_frame", who, room_id, <<len>>, "Audio frame too large")
              ELSE /\ audio_frame_event' = {[room_id |-> room_id, from |-> who, len |-> len]}
                   /\ video_frame_event' = {}
                   /\ Called("send_audio_frame", who, room_id, <<len>>, "Ok")
                   /\ UNCHANGED <<user, call_room, call_participant, next_id, next_room>>

\* --------------------------------------------------------- send_video_frame
\* the room checks that precede the participant lookup
VideoRoomCheck(room_id) ==
    IF FindRoom(room_id) = {} THEN "Room not found"
    ELSE IF \E room \in FindRoom(room_id) : room.call_type # "Video"
    THEN "Not a video room"
    ELSE "Ok"

VideoTooLarge(len) == len > VideoMaxBytes

\* mutant: the participant is looked up before the room
send_video_frame_lookup_first(who, room_id, len) ==
    /\ Ready
    /\ IF FindJoined(room_id, who) = {}
       THEN ReturnEarly("send_video_frame", who, room_id, <<len>>, "Not a joined participant")
       ELSE LET chk == VideoRoomCheck(room_id)
            IN IF chk # "Ok"
               THEN ReturnEarly("send_video_frame", who, room_id, <<len>>, chk)
               ELSE \E participant \in FindJoined(room_id, who) :
                      IF participant.cam_off
                      THEN ReturnEarly("send_video_frame", who, room_id, <<len>>, "Ok")
                      ELSE IF VideoTooLarge(len)
                      THEN ReturnEarly("send_video_frame", who, room_id, <<len>>, "Video frame too large")
                      ELSE /\ video_frame_event' = {[room_id |-> room_id, from |-> who, len |-> len]}
                           /\ audio_frame_event' = {}
                           /\ Called("send_video_frame", who, room_id, <<len>>, "Ok")
                           /\ UNCHANGED <<user, call_room, call_participant, next_id, next_room>>

send_video_frame(who, room_id, len) ==
    /\ Ready
    /\ LET chk == VideoRoomCheck(room_id)
       IN IF chk # "Ok"
          THEN ReturnEarly("send_video_frame", who, room_id, <<len>>, chk)
          ELSE IF FindJoined(room_id, who) = {}
          THEN ReturnEarly("send_video_frame", who, room_id, <<len>>, "Not a joined participant")
          ELSE \E participant \in FindJoined(room_id, who) :
                 IF participant.cam_off
                 THEN ReturnEarly("send_video_frame", who, room_id, <<len>>, "Ok")
                 ELSE IF VideoTooLarge(len)
                 THEN ReturnEarly("send_video_frame", who, room_id, <<len>>, "Video frame too large")
                 ELSE /\ video_frame_event' = {[room_id |-> room_id, from |-> who, len |-> len]}
                      /\ audio_frame_event' = {}
                      /\ Called("send_video_frame", who, room_id, <<len>>, "Ok")
                      /\ UNCHANGED <<user, call_room, call_participant, next_id, next_room>>

\* ---------------------------------------------------------- set_media_state
\* mutant: the requested value is stored whatever the lock
EffectiveMuted_NoLock(participant, muted) == muted

\* cannot unmute self when server_muted
EffectiveMuted(participant, muted) ==
    IF participant.server_muted THEN TRUE ELSE muted

MediaRow(participant, muted, deafened, cam_off) ==
    [participant EXCEPT !.muted = EffectiveMuted(participant, muted),
                        !.deafened = deafened, !.cam_off = cam_off]

set_media_state(who, room_id, muted, deafened, cam_off) ==
    /\ Ready
    /\ IF FindJoined(room_id, who) = {}
       THEN ReturnEarly("set_media_state", who, room_id, <<muted, deafened, cam_off>>, "Not a joined participant")
       ELSE \E participant \in FindJoined(room_id, who) :
              /\ call_participant' = UpdateRow(call_participant,
                                        MediaRow(participant, muted, deafened, cam_off))
              /\ Called("set_media_state", who, room_id, <<muted, deafened, cam_off>>, "Ok")
              /\ NoEvents
              /\ UNCHANGED <<user, call_room, next_id, next_room>>

\* ------------------------------------------------------ mute_all, unmute_all
\* mutant: the creator must also be Joined in the room
HostCheck_JoinedOnly(who, room_id, denied) ==
    IF FindRoom(room_id) = {} THEN "Room not found"
    ELSE IF \E room \in FindRoom(room_id) : room.creator # who THEN denied
    ELSE IF ~IsJoinedIn(who, room_id) THEN denied
    ELSE "Ok"

\* mutant: any caller passes once the room exists
HostCheck_AnyCaller(who, room_id, denied) ==
    IF FindRoom(room_id) = {} THEN "Room not found" ELSE "Ok"

\* the host check shared by the four host-only reducers
HostCheck(who, room_id, denied) ==
    IF FindRoom(room_id) = {} THEN "Room not found"
    ELSE IF \E room \in FindRoom(room_id) : room.creator # who THEN denied
    ELSE "Ok"

\* mutant: Invited rows are collected too
OthersJoined_AnyState(who, room_id) ==
    {p \in by_room(room_id) : p.identity # who}

\* rows collected into to_update
OthersJoined(who, room_id) ==
    {p \in by_room(room_id) : p.state = "Joined" /\ p.identity # who}

\* mutant: the lock is set and muted is forgotten
SetMuteAll_LockOnly(p, on) == [p EXCEPT !.server_muted = on]

SetMuteAll(p, on) == [p EXCEPT !.server_muted = on, !.muted = on]

\* mutant: the caller's own row is updated too
MuteAllRows_WithCaller(parts, who, room_id, on) ==
    {IF p.room_id = room_id /\ p.state = "Joined" THEN SetMuteAll(p, on) ELSE p
       : p \in parts}

MuteAllRows(parts, who, room_id, on) ==
    {IF p \in OthersJoined(who, room_id) THEN SetMuteAll(p, on) ELSE p : p \in parts}

mute_all(who, room_id) ==
    /\ Ready
    /\ LET chk == HostCheck(who, room_id, "Only the host can mute all")
       IN IF chk # "Ok"
          THEN ReturnEarly("mute_all", who, room_id, <<>>, chk)
          ELSE /\ call_participant' = MuteAllRows(call_participant, who, room_id, TRUE)
               /\ Called("mute_all", who, room_id, <<>>, "Ok")
               /\ NoEvents
               /\ UNCHANGED <<user, call_room, next_id, next_room>>

unmute_all(who, room_id) ==
    /\ Ready
    /\ LET chk == HostCheck(who, room_id, "Only the host can unmute all")
       IN IF chk # "Ok"
          THEN ReturnEarly("unmute_all", who, room_id, <<>>, chk)
          ELSE /\ call_participant' = MuteAllRows(call_participant, who, room_id, FALSE)
               /\ Called("unmute_all", who, room_id, <<>>, "Ok")
               /\ NoEvents
               /\ UNCHANGED <<user, call_room, next_id, next_room>>

\* --------------------------------------------------------- kick_participant
\* mutant: the self-kick check is made after the row is deleted
kick_participant_late_check(who, room_id, target) ==
    /\ Ready
    /\ LET chk == HostCheck(who, room_id, "Only the host can kick participants")
       IN IF chk # "Ok"
          THEN ReturnEarly("kick_participant", who, room_id, <<target>>, chk)
          ELSE IF FindByIdentity(room_id, target) = {}
          THEN ReturnEarly("kick_participant", who, room_id, <<target>>, "Participant not found")
          ELSE \E participant \in FindByIdentity(room_id, target) :
                 LET db == RemoveAndCleanup(participant, room_id)
                 IN /\ call_participant' = db.call_participant
                    /\ call_room' = db.call_room
                    /\ Called("kick_participant", who, room_id, <<target>>,
                              IF target = who THEN "Cannot kick yourself" ELSE "Ok")
                    /\ NoEvents
                    /\ UNCHANGED <<user, next_id, next_room>>

kick_participant(who, room_id, target) ==
    /\ Ready
    /\ LET chk == HostCheck(who, room_id, "Only the host can kick participants")
       IN IF chk # "Ok"
          THEN ReturnEarly("kick_participant", who, room_id, <<target>>, chk)
          ELSE IF target = who
          THEN ReturnEarly("kick_participant", who, room_id, <<target>>, "Cannot kick yourself")
          ELSE IF FindByIdentity(room_id, target) = {}
          THEN ReturnEarly("kick_participant", who, room_id, <<target>>, "Participant not found")
          ELSE \E participant \in FindByIdentity(room_id, target) :
                 LET db == RemoveAndCleanup(participant, room_id)
                 IN /\ call_participant' = db.call_participant
                    /\ call_room' = db.call_room
                    /\ Called("kick_participant", who, room_id, <<target>>, "Ok")
                    /\ NoEvents
                    /\ UNCHANGED <<user, next_id, next_room>>

\* --------------------------------------------- set_participant_server_muted
ServerMutedRow(participant, locked) ==
    [participant EXCEPT !.server_muted = locked,
                        !.muted = IF locked THEN TRUE ELSE participant.muted]

set_participant_server_muted(who, room_id, target, locked) ==
    /\ Ready
    /\ LET chk == HostCheck(who, room_id, "Only the host can change server mute")
       IN IF chk # "Ok"
          THEN ReturnEarly("set_participant_server_muted", who, room_id, <<target, locked>>, chk)
          ELSE IF target = who
          THEN ReturnEarly("set_participant_server_muted", who, room_id, <<target, locked>>,
                      "Cannot server-mute yourself")
          ELSE IF FindJoined(room_id, target) = {}
          THEN ReturnEarly("set_participant_server_muted", who, room_id, <<target, locked>>, "Target not found")
          ELSE \E participant \in FindJoined(room_id, target) :
                 /\ call_participant' = UpdateRow(call_participant,
                                           ServerMutedRow(participant, locked))
                 /\ Called("set_participant_server_muted", who, room_id, <<target, locked>>, "Ok")
                 /\ NoEvents
                 /\ UNCHANGED <<user, call_room, next_id, next_room>>

\* the host has committed the call: its reply and its event rows are handed
\* over, and the event tables are empty again
Deliver ==
    /\ last.op # "idle"
    /\ last' = Idle
    /\ result' = "Ok"
    /\ NoEvents
    /\ UNCHANGED <<user, call_room, call_participant, next_id, next_room>>

\* reducers run one at a time: nobody calls before the previous call is
\* delivered
Callers(ids) == IF Ready THEN ids ELSE {}

\* every reducer call by and on the identities ids, create_room with its
\* targets drawn from target_lists and set_media_state with its requests drawn
\* from media_inputs
Reducers(ids, target_lists, media_inputs) ==
    \/ \E who \in Callers(ids) : client_connected(who)
    \/ \E who \in Callers(ids) : client_disconnected(who)
    \/ \E who \in Callers(ids), targets \in target_lists, ct \in CallTypes :
          create_room(who, targets, ct)
    \/ \E who \in Callers(ids), r \in RoomIds, target \in ids :
          invite_to_room(who, r, target)
    \/ \E who \in Callers(ids), r \in RoomIds : join_room(who, r)
    \/ \E who \in Callers(ids), r \in RoomIds : decline_invite(who, r)
    \/ \E who \in Callers(ids), r \in RoomIds : leave_room(who, r)
    \/ \E who \in Callers(ids), r \in RoomIds, len \in AudioLens :
          send_audio_frame(who, r, len)
    \/ \E who \in Callers(ids), r \in RoomIds, len \in VideoLens :
          send_video_frame(who, r, len)
    \/ \E who \in Callers(ids), r \in RoomIds, m \in media_inputs :
          set_media_state(who, r, m[1], m[2], m[3])
    \/ \E who \in Callers(ids), r \in RoomIds : mute_all(who, r)
    \/ \E who \in Callers(ids), r \in RoomIds : unmute_all(who, r)
    \/ \E who \in Callers(ids), r \in RoomIds, target \in ids :
          kick_participant(who, r, target)
    \/ \E who \in Callers(ids), r \in RoomIds, target \in ids, locked \in BOOLEAN :
          set_participant_server_muted(who, r, target, locked)

\* Spec: two identities from the empty store, every room and row id
\* still to hand out; self-service mute only
Next ==
    \/ Reducers(Pair, PairTargetLists, MuteInputs)
    \/ Deliver

Spec == Init /\ [][Next]_vars

\* the empty store after one room of first_id - 1 rows has come and gone
InitAfterRoom(first_id) ==
    /\ user = {}
    /\ call_room = {}
    /\ call_participant = {}
    /\ audio_frame_event = {}
    /\ video_frame_event = {}
    /\ next_id = first_id
    /\ next_room = 2
    /\ last = Idle
    /\ result = "Ok"

\* SpecParty: three identities and three row ids left; self-service mute only
InitParty == InitAfterRoom(MaxRowId - 2)

NextParty ==
    \/ Reducers(Identities, AllTargetLists, MuteInputs)
    \/ Deliver

SpecParty == InitParty /\ [][NextParty]_vars

\* SpecMedia: three identities and two row ids left; every media input
InitMedia == InitAfterRoom(MaxRowId - 1)

NextMedia ==
    \/ Reducers(Identities, AllTargetLists, MediaInputs)
    \/ Deliver

SpecMedia == InitMedia /\ [][NextMedia]_vars

\* SpecRooms: three identities and four row ids left, enough for two rooms
\* side by side; rooms start with one invitation and grow by invite_to_room
ShortTargetLists ==
    {targets \in AllTargetLists : Len(targets) <= 1 \/ Len(targets) > MaxTargets}

InitRooms == InitAfterRoom(MaxRowId - 3)

NextRooms ==
    \/ Reducers(Identities, ShortTargetLists, MuteInputs)
    \/ Deliver

SpecRooms == InitRooms /\ [][NextRooms]_vars

\* SpecCamera: two identities and three row ids left; camera switch only
InitCamera == InitAfterRoom(MaxRowId - 2)

NextCamera ==
    \/ Reducers(Pair, PairTargetLists, CameraInputs)
    \/ Deliver

SpecCamera == InitCamera /\ [][NextCamera]_vars

\* callers that are in the presence directory: connected and not yet
\* disconnected
Present(ids) == Callers(ids) \cap user

\* the reducer calls of clients that call only while they are connected:
\* client_connected by anyone, every other reducer by a present identity
PresentReducers(ids, target_lists, media_inputs) ==
    \/ \E who \in Callers(ids) : client_connected(who)
    \/ \E who \in Present(ids) : client_disconnected(who)
    \/ \E who \in Present(ids), targets \in target_lists, ct \in CallTypes :
          create_room(who, targets, ct)
    \/ \E who \in Present(ids), r \in RoomIds, target \in ids :
          invite_to_room(who, r, target)
    \/ \E who \in Present(ids), r \in RoomIds : join_room(who, r)
    \/ \E who \in Present(ids), r \in RoomIds : decline_invite(who, r)
    \/ \E who \in Present(ids), r \in RoomIds : leave_room(who, r)
    \/ \E who \in Present(ids), r \in RoomIds, len \in AudioLens :
          send_audio_frame(who, r, len)
    \/ \E who \in Present(ids), r \in RoomIds, len \in VideoLens :
          send_video_frame(who, r, len)
    \/ \E who \in Present(ids), r \in RoomIds, m \in media_inputs :
          set_media_state(who, r, m[1], m[2], m[3])
    \/ \E who \in Present(ids), r \in RoomIds : mute_all(who, r)
    \/ \E who \in Present(ids), r \in RoomIds : unmute_all(who, r)
    \/ \E who \in Present(ids), r \in RoomIds, target \in ids :
          kick_participant(who, r, target)
    \/ \E who \in Present(ids), r \in RoomIds, target \in ids, locked \in BOOLEAN :
          set_participant_server_muted(who, r, target, locked)

\* SpecPresent: three identities that call only while connected, three row
\* ids left; self-service mute only
InitPresent == InitAfterRoom(MaxRowId - 2)

NextPresent ==
    \/ PresentReducers(Identities, AllTargetLists, MuteInputs)
    \/ Deliver

SpecPresent == InitPresent /\ [][NextPresent]_vars

\* ================================================================== claims
StoreUnchanged == UNCHANGED <<user, call_room, call_participant>>

RowsOf(room_id, who) ==
    {p \in call_participant : p.room_id = room_id /\ p.identity = who}

JoinedRowsOf(who) ==
    {p \in call_participant : p.identity = who /\ p.state = "Joined"}

RoomExists(room_id) == \E room \in call_room : room.room_id = room_id

\* C1: no identity has more than one CallParticipant row with state = Joined
\* across the whole store, rows of one room and rows of different rooms alike.
C1_AtMostOneJoinedRow ==
    \A who \in Identities : Cardinality(JoinedRowsOf(who)) <= 1

\* C2: there is at most one CallParticipant row for each (room_id, identity)
\* pair, also after create_room for every target list it accepts.
C2_OneRowPerRoomAndIdentity ==
    \A p, q \in call_participant :
        (p.room_id = q.room_id /\ p.identity = q.identity) => p = q

\* C3: for every room_id these three are equivalent: a CallRoom row exists; at
\* least one CallParticipant row of the room exists; at least one of them is
\* Joined.
C3_RoomIffRowIffJoined ==
    \A r \in RoomIds \cup {p.room_id : p \in call_participant}
                     \cup {room.room_id : room \in call_room} :
        LET has_row == \E p \in call_participant : p.room_id = r
            has_joined == \E p \in call_participant :
                              p.room_id = r /\ p.state = "Joined"
        IN /\ RoomExists(r) <=> has_row
           /\ has_row <=> has_joined

\* a leave has taken a room away with the cascade while another room lives on
C3_Witness ==
    /\ last.op = "leave_room"
    /\ result = "Ok"
    /\ ~RoomExists(last.room_id)
    /\ \E room \in call_room :
          \E p \in call_participant : p.room_id = room.room_id /\ p.state = "Invited"

\* C4: every CallParticipant row with server_muted = true has muted = true.
C4_ServerMutedImpliesMuted ==
    \A p \in call_participant : p.server_muted => p.muted

\* the host has locked a participant with mute_all
C4_Witness ==
    /\ last.op = "mute_all"
    /\ result = "Ok"
    /\ \E p \in call_participant :
          p.room_id = last.room_id /\ p.server_muted /\ p.muted

\* the step is the room's creator taking the lock off row p
HostUnlocks(p) ==
    /\ last'.op \in {"unmute_all", "set_participant_server_muted"}
    /\ result' = "Ok"
    /\ last'.room_id = p.room_id
    /\ last'.who # p.identity
    /\ \E room \in call_room : room.room_id = p.room_id /\ room.creator = last'.who

\* C5: a row with server_muted = true keeps muted = true and server_muted =
\* true in the next state, unless the row is deleted or the step is the room's
\* creator (not the locked participant) setting server_muted to false.
C5_LockHoldsUntilHostUnlocks ==
    [][\A p \in call_participant :
          p.server_muted =>
             \A q \in call_participant' :
                 q.id = p.id => \/ q.server_muted /\ q.muted
                                \/ HostUnlocks(p) /\ ~q.server_muted]_vars

\* a locked participant has asked set_media_state for muted = false and is
\* still muted and locked
C5_Witness ==
    /\ last.op = "set_media_state"
    /\ result = "Ok"
    /\ last.arg[1] = FALSE
    /\ \E p \in RowsOf(last.room_id, last.who) :
          p.state = "Joined" /\ p.server_muted /\ p.muted

\* C6: a call that returns an error leaves CallRoom and CallParticipant (and
\* the presence directory) as they were and emits no frame event.
C6_ErrorChangesNothing ==
    [][result' # "Ok" =>
          /\ StoreUnchanged
          /\ audio_frame_event' = {}
          /\ video_frame_event' = {}]_vars

\* a host-only call has failed in a store that holds rooms and rows
C6_Witness ==
    /\ last.op = "kick_participant"
    /\ result = "Cannot kick yourself"
    /\ call_room # {}
    /\ call_participant # {}

\* the conditions under which the claim says create_room fails
C7_MustFail(creator, targets) ==
    \/ Len(targets) = 0
    \/ Len(targets) > 15
    \/ \E i \in 1..Len(targets) : targets[i] = creator
    \/ JoinedRowsOf(creator) # {}
    \/ \E i \in 1..Len(targets) : targets[i] \notin user
    \/ \E i \in 1..Len(targets) : JoinedRowsOf(targets[i]) # {}

\* the step adds one room of the caller and len(targets)+1 rows for it
C7_Created(creator, targets, call_type) ==
    LET new_rooms == call_room' \ call_room
        new_rows == call_participant' \ call_participant
    IN /\ call_room \subseteq call_room'
       /\ call_participant \subseteq call_participant'
       /\ user' = user
       /\ Cardinality(new_rooms) = 1
       /\ \A room \in new_rooms :
             /\ room.creator = creator
             /\ room.call_type = call_type
             /\ ~RoomExists(room.room_id)
             /\ \A p \in call_participant : p.room_id # room.room_id
             /\ \A p \in new_rows : p.room_id = room.room_id
       /\ Cardinality(new_rows) = Len(targets) + 1
       /\ \A p \in new_rows :
             ~p.muted /\ ~p.deafened /\ ~p.cam_off /\ ~p.server_muted
       /\ Cardinality({p \in new_rows : p.state = "Joined"}) = 1
       /\ \A p \in new_rows : p.state = "Joined" => p.identity = creator
       /\ \A t \in Identities :
             Cardinality({p \in new_rows : p.state = "Invited" /\ p.identity = t})
                = Cardinality({i \in 1..Len(targets) : targets[i] = t})

\* C7 as claimed: create_room fails in the listed cases and otherwise succeeds,
\* adding one room and len(targets)+1 rows.
C7_CreateRoomAsClaimed ==
    [][last'.op = "create_room" =>
          LET creator == last'.who
              targets == last'.arg[1]
              call_type == last'.arg[2]
          IN IF C7_MustFail(creator, targets)
             THEN result' # "Ok" /\ StoreUnchanged
             ELSE result' = "Ok" /\ C7_Created(creator, targets, call_type)]_vars

\* C7 amended: create_room fails in the listed cases; otherwise it either
\* fails because no room id could be generated, changing nothing, or succeeds,
\* adding one room and len(targets)+1 rows.
C7_CreateRoom ==
    [][last'.op = "create_room" =>
          LET creator == last'.who
              targets == last'.arg[1]
              call_type == last'.arg[2]
          IN IF C7_MustFail(creator, targets)
             THEN result' # "Ok" /\ StoreUnchanged
             ELSE \/ result' = "Failed to generate room id" /\ StoreUnchanged
                  \/ result' = "Ok" /\ C7_Created(creator, targets, call_type)]_vars

\* a room with invitations for two different identities has been created
C7_Witness ==
    /\ last.op = "create_room"
    /\ result = "Ok"
    /\ Len(last.arg[1]) = 2
    /\ last.arg[1][1] # last.arg[1][2]
    /\ Cardinality({p \in call_participant : p.room_id = last.room_id}) = 3

\* C8: a successful leave_room or kick_participant that removes the only
\* Joined row of the room removes the CallRoom row and every row of the room
\* in the same step; if a Joined row remains, the CallRoom row and every other
\* row are unchanged.  A CallRoom row goes only in a step that removes the
\* last Joined row of its room.
C8_CascadeOnLastJoined ==
    [][/\ (last'.op \in {"leave_room", "kick_participant"} /\ result' = "Ok") =>
            LET r == last'.room_id
                x == IF last'.op = "leave_room" THEN last'.who ELSE last'.arg[1]
            IN \E p \in RowsOf(r, x) :
                  /\ p \notin call_participant'
                  /\ (p.state = "Joined" /\
                      \A q \in call_participant :
                          (q.room_id = r /\ q.state = "Joined") => q = p)
                       => /\ call_participant' = {q \in call_participant : q.room_id # r}
                          /\ call_room' = {room \in call_room : room.room_id # r}
                  /\ (\E q \in call_participant :
                          q.room_id = r /\ q.state = "Joined" /\ q # p)
                       => /\ call_participant' = call_participant \ {p}
                          /\ call_room' = call_room
       /\ \A room \in call_room :
            room \notin call_room' =>
               /\ \E p \in call_participant :
                     /\ p.room_id = room.room_id
                     /\ p.state = "Joined"
                     /\ p \notin call_participant'
               /\ \A q \in call_participant' :
                     q.room_id = room.room_id => q.state # "Joined"]_vars

\* the host has kicked the last Joined participant and the room is gone
C8_Witness ==
    /\ last.op = "kick_participant"
    /\ result = "Ok"
    /\ ~RoomExists(last.room_id)
    /\ \A p \in call_participant : p.room_id # last.room_id

\* C9: send_audio_frame by an identity holding a Joined row in the room with
\* muted or server_muted set returns success and emits nothing; by an unmuted,
\* unlocked Joined participant with a payload over 10,000 bytes it fails and
\* emits nothing; an event is emitted only for a Joined, unmuted, unlocked
\* sender and a payload within the bound.
C9_AudioGate ==
    [][last'.op = "send_audio_frame" =>
          LET rows == {p \in RowsOf(last'.room_id, last'.who) : p.state = "Joined"}
              len == last'.arg[1]
          IN /\ (\E p \in rows : p.muted \/ p.server_muted)
                   => result' = "Ok" /\ audio_frame_event' = {}
             /\ (rows # {} /\ (\A p \in rows : ~p.muted /\ ~p.server_muted)
                   /\ len > 10000)
                   => result' # "Ok" /\ audio_frame_event' = {}
             /\ audio_frame_event' # {}
                   => /\ \E p \in rows : ~p.muted /\ ~p.server_muted
                      /\ len <= 10000]_vars

\* C10: send_video_frame on an existing Voice room returns the call-type
\* error and emits no VideoFrameEvent, whatever the caller's rows and the
\* payload size: the call type is checked before the participant is looked up.
C10_VoiceRoomRejectsVideo ==
    [][(last'.op = "send_video_frame" /\
        \E room \in call_room :
            room.room_id = last'.room_id /\ room.call_type = "Voice") =>
          /\ result' = "Not a video room"
          /\ video_frame_event' = {}
          /\ StoreUnchanged]_vars

\* a caller without any row in a Voice room got the call-type error
C10_Witness ==
    /\ last.op = "send_video_frame"
    /\ result = "Not a video room"
    /\ RowsOf(last.room_id, last.who) = {}
    /\ \E p \in call_participant : p.room_id = last.room_id /\ p.cam_off

\* ------------------------------------------------------------- C11 scenario
\* a row of the scenario's room as the tables hold it, its id left out
C11_Row(room_id, identity, state, locked) ==
    [room_id |-> room_id, identity |-> identity, state |-> state,
     invited_by |-> "A",
     joined_at |-> IF state = "Joined" THEN "Some" ELSE "None",
     muted |-> locked, deafened |-> FALSE, cam_off |-> FALSE,
     server_muted |-> locked]

C11_NoId(p) ==
    [room_id |-> p.room_id, identity |-> p.identity, state |-> p.state,
     invited_by |-> p.invited_by, joined_at |-> p.joined_at,
     muted |-> p.muted, deafened |-> p.deafened, cam_off |-> p.cam_off,
     server_muted |-> p.server_muted]

\* the store holds the Video room r of A and exactly the given rows
C11_Store(r, rows) ==
    /\ call_room = {[room_id |-> r, call_type |-> "Video", creator |-> "A"]}
    /\ {C11_NoId(p) : p \in call_participant} = rows
    /\ Cardinality(call_participant) = Cardinality(rows)

C11_Created(r) ==
    C11_Store(r, {C11_Row(r, "A", "Joined", FALSE), C11_Row(r, "B", "Invited", FALSE),
                  C11_Row(r, "C", "Invited", FALSE)})

C11_BJoined(r) ==
    C11_Store(r, {C11_Row(r, "A", "Joined", FALSE), C11_Row(r, "B", "Joined", FALSE),
                  C11_Row(r, "C", "Invited", FALSE)})

\* after mute_all as the scenario tells it: B and C locked and muted
C11_MutedAsClaimed(r) ==
    C11_Store(r, {C11_Row(r, "A", "Joined", FALSE), C11_Row(r, "B", "Joined", TRUE),
                  C11_Row(r, "C", "Invited", TRUE)})

\* after mute_all: B locked and muted, the Invited row of C as it was
C11_Muted(r) ==
    C11_Store(r, {C11_Row(r, "A", "Joined", FALSE), C11_Row(r, "B", "Joined", TRUE),
                  C11_Row(r, "C", "Invited", FALSE)})

C11_CDeclined(r) ==
    C11_Store(r, {C11_Row(r, "A", "Joined", FALSE), C11_Row(r, "B", "Joined", TRUE)})

C11_BKicked(r) == C11_Store(r, {C11_Row(r, "A", "Joined", FALSE)})

C11_Empty == call_room = {} /\ call_participant = {}

\* the step is the call op(arg) by who on room r
C11_Call(op, who, r, arg) ==
    last' = [op |-> op, who |-> who, room_id |-> r, arg |-> arg]

\* the steps of the scenario, each from the state the one before leaves;
\* muted(r) is the state after mute_all
C11_Steps(r, muted(_)) ==
    /\ (C11_Empty /\ user = Identities /\ result' = "Ok"
          /\ C11_Call("create_room", "A", r, <<(<<"B", "C">>), "Video">>))
         => C11_Created(r)'
    /\ (C11_Created(r) /\ C11_Call("join_room", "B", r, <<>>))
         => result' = "Ok" /\ C11_BJoined(r)'
    /\ (C11_BJoined(r) /\ C11_Call("mute_all", "A", r, <<>>))
         => result' = "Ok" /\ muted(r)'
    /\ \A len \in AudioLens :
         (muted(r) /\ C11_Call("send_audio_frame", "B", r, <<len>>))
           => result' = "Ok" /\ audio_frame_event' = {} /\ muted(r)'
    /\ (muted(r) /\ C11_Call("decline_invite", "C", r, <<>>))
         => result' = "Ok" /\ C11_CDeclined(r)'
    /\ (C11_CDeclined(r) /\ C11_Call("kick_participant", "A", r, <<"B">>))
         => result' = "Ok" /\ C11_BKicked(r)'
    /\ (C11_BKicked(r) /\ C11_Call("leave_room", "A", r, <<>>))
         => result' = "Ok" /\ C11_Empty'

\* C11 as claimed: the scenario create, join, mute_all, send_audio_frame,
\* decline, kick, leave, where mute_all locks and mutes both B and C.
C11_ScenarioAsClaimed ==
    [][\A r \in RoomIds : C11_Steps(r, C11_MutedAsClaimed)]_vars

\* C11 amended: the same scenario, where mute_all locks and mutes B (the only
\* other Joined row) and leaves the Invited row of C and the row of A as they
\* were; the muted B sends audio with success and no event, C declines, A
\* kicks B, A leaves and the room and all its rows are gone.
C11_Scenario ==
    [][\A r \in RoomIds : C11_Steps(r, C11_Muted)]_vars

\* B, locked by mute_all while C is still invited, has sent an audio frame
C11_Witness ==
    /\ last.op = "send_audio_frame"
    /\ last.who = "B"
    /\ result = "Ok"
    /\ audio_frame_event = {}
    /\ C11_Muted(last.room_id)

\* C12: client_disconnected never fails; afterwards no row of any state in any
\* room has the identity; a room where it held a Joined row and no other
\* identity is Joined is deleted with all its rows; a room where another
\* identity is Joined stays, and the rows of other identities in it are
\* unchanged.
C12_PresenceLossCleanup ==
    [][last'.op = "client_disconnected" =>
          LET who == last'.who
          IN /\ result' = "Ok"
             /\ who \notin user'
             /\ \A p \in call_participant' : p.identity # who
             /\ call_room' \subseteq call_room
             /\ call_participant' \subseteq call_participant
             /\ \A room \in call_room :
                   LET r == room.room_id
                       held_joined == \E p \in by_room(r) :
                                          p.identity = who /\ p.state = "Joined"
                       other_joined == \E p \in by_room(r) :
                                          p.identity # who /\ p.state = "Joined"
                   IN /\ (held_joined /\ ~other_joined) =>
                            /\ room \notin call_room'
                            /\ \A p \in call_participant' : p.room_id # r
                      /\ other_joined =>
                            /\ room \in call_room'
                            /\ {p \in call_participant' : p.room_id = r}
                                  = {p \in by_room(r) : p.identity # who}]_vars

\* presence was lost after two rooms and all four rows had been created, and
\* one room with a single row is what remains
C12_Witness ==
    /\ last.op = "client_disconnected"
    /\ result = "Ok"
    /\ next_id = MaxRowId + 1
    /\ Cardinality(call_room) = 1
    /\ Cardinality(call_participant) = 1
    /\ \A p \in call_participant : p.identity # last.who /\ p.state = "Joined"

\* C13: join_room succeeds only if the identity has an Invited row in the room
\* and no Joined row in another room; it fails, changing nothing, if the
\* identity has no row in the room, if its row there is already Joined, or if
\* it is Joined in another room.  On success exactly that one row changes:
\* state becomes Joined and joined_at is set; every other column, row and room
\* is unchanged.
C13_JoinRoom ==
    [][last'.op = "join_room" =>
          LET who == last'.who
              r == last'.room_id
              rows == RowsOf(r, who)
              elsewhere == \E p \in call_participant :
                  p.identity = who /\ p.room_id # r /\ p.state = "Joined"
          IN /\ (\/ rows = {}
                 \/ \E p \in rows : p.state = "Joined"
                 \/ elsewhere)
                  => result' # "Ok" /\ StoreUnchanged
             /\ result' = "Ok" =>
                  /\ ~elsewhere
                  /\ user' = user
                  /\ call_room' = call_room
                  /\ \E p \in rows :
                        /\ p.state = "Invited"
                        /\ call_participant' =
                              (call_participant \ {p}) \cup
                              {[p EXCEPT !.state = "Joined", !.joined_at = "Some"]}]_vars

HostOps == {"mute_all", "unmute_all", "kick_participant",
            "set_participant_server_muted"}

\* C14: mute_all, unmute_all, kick_participant and
\* set_participant_server_muted fail, leaving the store unchanged, whenever
\* the room does not exist or the caller is not its recorded creator;
\* kick_participant and set_participant_server_muted also fail when the target
\* is the caller.
C14_HostOnly ==
    [][last'.op \in HostOps =>
          LET who == last'.who
              r == last'.room_id
          IN /\ (\/ ~RoomExists(r)
                 \/ \E room \in call_room : room.room_id = r /\ room.creator # who)
                  => result' # "Ok" /\ StoreUnchanged
             /\ (/\ last'.op \in {"kick_participant", "set_participant_server_muted"}
                 /\ last'.arg[1] = who)
                  => result' # "Ok" /\ StoreUnchanged]_vars

\* a Joined participant who is not the creator was refused the server mute of
\* the creator
C14_Witness ==
    /\ last.op = "set_participant_server_muted"
    /\ result = "Only the host can change server mute"
    /\ \E p \in RowsOf(last.room_id, last.who) : p.state = "Joined"
    /\ \E room \in call_room :
          room.room_id = last.room_id /\ room.creator = last.arg[1]

\* C15: set_participant_server_muted by the creator on a Joined target: with
\* locked = true the target's row ends with server_muted = muted = true; with
\* locked = false it ends with server_muted = false and muted as it was.
\* deafened, cam_off, state and all other rows are unchanged, and the call
\* fails if the target's row in the room is Invited or absent.
C15_ServerMute ==
    [][last'.op = "set_participant_server_muted" =>
          LET r == last'.room_id
              target == last'.arg[1]
              locked == last'.arg[2]
              rows == RowsOf(r, target)
          IN /\ (rows = {} \/ \E p \in rows : p.state = "Invited")
                  => result' # "Ok" /\ StoreUnchanged
             /\ result' = "Ok" =>
                  /\ user' = user
                  /\ call_room' = call_room
                  /\ \E p \in rows :
                        /\ p.state = "Joined"
                        /\ call_participant' =
                              (call_participant \ {p}) \cup
                              {[p EXCEPT !.server_muted = locked,
                                         !.muted = IF locked THEN TRUE ELSE p.muted]}
                  /\ \A q \in call_participant' :
                        (q.room_id = r /\ q.identity = target) =>
                            /\ q.server_muted = locked
                            /\ locked => q.muted]_vars

\* C16: invite_to_room succeeds only if the inviter holds a Joined row in the
\* room, the target is in the presence directory, holds no Joined row in any
\* room and has no row of any state in the room; otherwise it fails and
\* changes nothing.  On success it inserts exactly one Invited row for (room,
\* target) with invited_by = inviter and all media flags false, and changes
\* nothing else.
C16_Invite ==
    [][last'.op = "invite_to_room" =>
          LET who == last'.who
              r == last'.room_id
              target == last'.arg[1]
              allowed == /\ \E p \in RowsOf(r, who) : p.state = "Joined"
                         /\ target \in user
                         /\ JoinedRowsOf(target) = {}
                         /\ RowsOf(r, target) = {}
          IN /\ ~allowed => result' # "Ok" /\ StoreUnchanged
             /\ result' = "Ok" =>
                  /\ allowed
                  /\ user' = user
                  /\ call_room' = call_room
                  /\ call_participant \subseteq call_participant'
                  /\ Cardinality(call_participant' \ call_participant) = 1
                  /\ \A p \in call_participant' \ call_participant :
                        /\ \A q \in call_participant : q.id # p.id
                        /\ p.room_id = r
                        /\ p.identity = target
                        /\ p.state = "Invited"
                        /\ p.invited_by = who
                        /\ p.joined_at = "None"
                        /\ ~p.muted /\ ~p.deafened /\ ~p.cam_off
                        /\ ~p.server_muted]_vars

\* a Joined participant who is not the creator has invited a third identity
C16_Witness ==
    /\ last.op = "invite_to_room"
    /\ result = "Ok"
    /\ \E room \in call_room :
          room.room_id = last.room_id /\ room.creator # last.who
    /\ \E p \in RowsOf(last.room_id, last.arg[1]) :
          p.state = "Invited" /\ p.invited_by = last.who

\* C17: a successful mute_all (unmute_all) sets server_muted and muted to true
\* (false) on every Joined row of the room whose identity is not the caller,
\* and leaves unchanged the caller's own row, every Invited row, the deafened
\* and cam_off flags of the updated rows and every row of every other room.
C17_MuteAllFrame ==
    [][(last'.op \in {"mute_all", "unmute_all"} /\ result' = "Ok") =>
          LET who == last'.who
              r == last'.room_id
              on == last'.op = "mute_all"
          IN /\ user' = user
             /\ call_room' = call_room
             /\ Cardinality(call_participant') = Cardinality(call_participant)
             /\ \A p \in call_participant :
                   IF p.room_id = r /\ p.state = "Joined" /\ p.identity # who
                   THEN [p EXCEPT !.server_muted = on, !.muted = on]
                           \in call_participant'
                   ELSE p \in call_participant']_vars

\* unmute_all has released a participant whose camera is off and who is
\* deafened
C17_Witness ==
    /\ last.op = "unmute_all"
    /\ result = "Ok"
    /\ \E p \in call_participant :
          /\ p.room_id = last.room_id
          /\ p.identity # last.who
          /\ p.state = "Joined"
          /\ p.cam_off /\ p.deafened
          /\ ~p.muted /\ ~p.server_muted
    /\ \E p \in RowsOf(last.room_id, last.who) : p.muted

\* C18: send_video_frame on a Video room by an identity holding a Joined row
\* with cam_off = true returns success and emits nothing; with cam_off = false
\* and a payload over 200,000 bytes it fails and emits nothing; an event is
\* emitted only when the room is Video, the sender holds a Joined row in it
\* with cam_off = false and the payload is within the bound, and then it is
\* emitted whatever the sender's muted and server_muted flags.
C18_VideoGate ==
    [][last'.op = "send_video_frame" =>
          LET r == last'.room_id
              rows == {p \in RowsOf(r, last'.who) : p.state = "Joined"}
              len == last'.arg[1]
              video == \E room \in call_room :
                           room.room_id = r /\ room.call_type = "Video"
          IN /\ StoreUnchanged
             /\ (video /\ \E p \in rows : p.cam_off)
                   => result' = "Ok" /\ video_frame_event' = {}
             /\ (video /\ rows # {} /\ (\A p \in rows : ~p.cam_off)
                   /\ len > VideoMaxBytes)
                   => result' # "Ok" /\ video_frame_event' = {}
             /\ video_frame_event' # {}
                   => /\ video
                      /\ \E p \in rows : ~p.cam_off
                      /\ len <= VideoMaxBytes
             /\ (video /\ rows # {} /\ (\A p \in rows : ~p.cam_off)
                   /\ len <= VideoMaxBytes)
                   => result' = "Ok" /\ video_frame_event' # {}]_vars

\* C19 as claimed: every successful mute_all, unmute_all, kick_participant or
\* set_participant_server_muted is performed by an identity that holds a
\* Joined row in the room when it calls.
C19_HostIsJoinedAsClaimed ==
    [][(last'.op \in HostOps /\ result' = "Ok") =>
          \E p \in RowsOf(last'.room_id, last'.who) : p.state = "Joined"]_vars

\* C19 amended: every successful host-only operation is performed by the
\* identity recorded as creator in the room's CallRoom row, whether or not it
\* holds a row in the room; as long as the room exists, mute_all and
\* unmute_all by its creator succeed.
C19_HostIsCreator ==
    [][last'.op \in HostOps =>
          LET who == last'.who
              is_creator == \E room \in call_room :
                  room.room_id = last'.room_id /\ room.creator = who
          IN /\ result' = "Ok" => is_creator
             /\ (is_creator /\ last'.op \in {"mute_all", "unmute_all"})
                  => result' = "Ok"]_vars

\* the creator, who holds no row in the room any more, has locked a
\* participant with mute_all
C19_Witness ==
    /\ last.op = "mute_all"
    /\ result = "Ok"
    /\ RowsOf(last.room_id, last.who) = {}
    /\ \E p \in call_participant :
          p.room_id = last.room_id /\ p.state = "Joined" /\ p.server_muted

\* every Invited row has all four flags false and no joined_at; every Joined
\* row has joined_at
C20_RowShape ==
    \A p \in call_participant :
        /\ p.state = "Invited" =>
              /\ ~p.muted /\ ~p.deafened /\ ~p.cam_off /\ ~p.server_muted
              /\ p.joined_at = "None"
        /\ p.state = "Joined" => p.joined_at = "Some"

\* a row that stays keeps room_id, identity and invited_by and never goes from
\* Joined back to Invited; a room that stays keeps creator and call_type
C20_RowStep ==
    /\ \A p \in call_participant : \A q \in call_participant' :
          q.id = p.id =>
              /\ q.room_id = p.room_id
              /\ q.identity = p.identity
              /\ q.invited_by = p.invited_by
              /\ p.state = "Joined" => q.state = "Joined"
    /\ \A room \in call_room : \A kept \in call_room' :
          kept.room_id = room.room_id =>
              /\ kept.creator = room.creator
              /\ kept.call_type = room.call_type

\* C20: in every reachable state every Invited row has muted, deafened,
\* cam_off and server_muted false and joined_at unset, and every Joined row
\* has joined_at set; no step changes a row from Joined back to Invited or
\* changes a row's room_id, identity or invited_by, or a room's creator or
\* call_type.
C20_RowLifecycle == []C20_RowShape /\ [][C20_RowStep]_vars

\* a participant has set all three of its media flags while another identity
\* is still invited to the room
C20_Witness ==
    /\ last.op = "set_media_state"
    /\ result = "Ok"
    /\ \E p \in RowsOf(last.room_id, last.who) :
          p.muted /\ p.deafened /\ p.cam_off
    /\ \E p \in call_participant :
          p.room_id = last.room_id /\ p.state = "Invited"

\* C21: when every reducer is called only by an identity that is in the
\* presence directory, the identity of every CallParticipant row is in the
\* presence directory; so when the directory is empty, CallRoom and
\* CallParticipant are empty.
C21_RowsArePresent ==
    /\ \A p \in call_participant : p.identity \in user
    /\ user = {} => call_room = {} /\ call_participant = {}

\* the last present identity has disconnected after every row id had been
\* handed out, and nothing is left
C21_Witness ==
    /\ last.op = "client_disconnected"
    /\ user = {}
    /\ next_id = MaxRowId + 1
    /\ call_room = {}
    /\ call_participant = {}

====
